---- MODULE Spec2Model ----
(***************************************************************************)
(* Model of shim.py: the lBIS / Intiface WSDM shim.                        *)
(*                                                                         *)
(* Two asyncio tasks, intiface_client_loop (upstream link) and             *)
(* lbis_websocket_sender (actuator link), coupled by pump_command_queue,   *)
(* and the translator handle_intiface_message that turns a Lovense plain   *)
(* text frame into a pump speed.                                           *)
(*                                                                         *)
(* Representation.  A frame payload is a sequence of bytes (0..255); a     *)
(* decoded str is a sequence of Unicode code points.  A pump speed (a      *)
(* Python float in the source) is kept as an exact number of thousandths:  *)
(* 500 stands for 0.5, 1000 for 1.0.                                       *)
(***************************************************************************)
EXTENDS Integers, Sequences, FiniteSets, TLC

(* ---------------------------------------------------------------------- *)
(* Bounds of the model                                                    *)
(* ---------------------------------------------------------------------- *)

\* binary frames the upstream endpoint delivers in one run
MaxRecv == 2
\* levels L used in the frames "vibrate:<L>;" range over -MaxLevel..MaxLevel
MaxLevel == 24
\* letters of a command token (from the left) whose case is varied
CaseWidth == 3

(* ---------------------------------------------------------------------- *)
(* Program constants                                                      *)
(* ---------------------------------------------------------------------- *)

\* asyncio.sleep(5) in both loops
RETRY_DELAY == 5
\* "version": WSDM_VERSION
WSDM_VERSION == 0
\* highest Lovense vibrate level, the divisor of the scaling
LOVENSE_MAX_LEVEL == 20
\* thousandths per unit of speed (representation of the float)
PERMILLE == 1000

(* ---------------------------------------------------------------------- *)
(* Characters and text                                                    *)
(* ---------------------------------------------------------------------- *)

LowerCaseLetters ==
  <<"a","b","c","d","e","f","g","h","i","j","k","l","m",
    "n","o","p","q","r","s","t","u","v","w","x","y","z">>

UpperCaseLetters ==
  <<"A","B","C","D","E","F","G","H","I","J","K","L","M",
    "N","O","P","Q","R","S","T","U","V","W","X","Y","Z">>

DigitChars == <<"0","1","2","3","4","5","6","7","8","9">>

\* code point of a character written in a literal of this module
Ord(ch) ==
  IF \E i \in 1..26 : LowerCaseLetters[i] = ch
    THEN 96 + (CHOOSE i \in 1..26 : LowerCaseLetters[i] = ch)
  ELSE IF \E i \in 1..26 : UpperCaseLetters[i] = ch
    THEN 64 + (CHOOSE i \in 1..26 : UpperCaseLetters[i] = ch)
  ELSE IF \E i \in 1..10 : DigitChars[i] = ch
    THEN 47 + (CHOOSE i \in 1..10 : DigitChars[i] = ch)
  ELSE CASE ch = ";" -> 59
         [] ch = ":" -> 58
         [] ch = " " -> 32
         [] ch = "+" -> 43
         [] ch = "-" -> 45
         [] ch = "_" -> 95
         [] ch = "." -> 46
         [] ch = "TAB" -> 9
         [] ch = "NBSP" -> 160
         [] ch = "E-ACUTE" -> 233
         [] ch = "CAP-E-ACUTE" -> 201
         [] ch = "ARABIC-5" -> 1637

\* a str literal: the sequence of code points of a sequence of characters
Str(chars) == [i \in 1..Len(chars) |-> Ord(chars[i])]

SEMICOLON == 59
COLON == 58

\* str.encode('utf-8') of one code point below U+0800 (what the upstream
\* endpoint does to build a frame)
EncodeChar(c) ==
  IF c < 128 THEN <<c>>
  ELSE <<192 + (c \div 64), 128 + (c % 64)>>

RECURSIVE Encode(_)
Encode(text) ==
  IF text = <<>> THEN <<>>
  ELSE EncodeChar(Head(text)) \o Encode(Tail(text))

IsCont(b, i) == i <= Len(b) /\ b[i] >= 128 /\ b[i] <= 191

\* number of bytes of the UTF-8 sequence that starts at b[i], 0 when the
\* bytes at i are not a well-formed sequence
SeqLen(b, i) ==
  LET c == b[i] IN
  IF c < 128 THEN 1
  ELSE IF c >= 194 /\ c <= 223
    THEN (IF IsCont(b, i + 1) THEN 2 ELSE 0)
  ELSE IF c >= 224 /\ c <= 239
    THEN (IF /\ IsCont(b, i + 1) /\ IsCont(b, i + 2)
             /\ (c = 224 => b[i + 1] >= 160)
             /\ (c = 237 => b[i + 1] <= 159)
          THEN 3 ELSE 0)
  ELSE IF c >= 240 /\ c <= 244
    THEN (IF /\ IsCont(b, i + 1) /\ IsCont(b, i + 2) /\ IsCont(b, i + 3)
             /\ (c = 240 => b[i + 1] >= 144)
             /\ (c = 244 => b[i + 1] <= 143)
          THEN 4 ELSE 0)
  ELSE 0

CodePoint(b, i, n) ==
  CASE n = 1 -> b[i]
    [] n = 2 -> (b[i] - 192) * 64 + (b[i + 1] - 128)
    [] n = 3 -> (b[i] - 224) * 4096 + (b[i + 1] - 128) * 64 + (b[i + 2] - 128)
    [] n = 4 -> (b[i] - 240) * 262144 + (b[i + 1] - 128) * 4096
                + (b[i + 2] - 128) * 64 + (b[i + 3] - 128)

\* msg_bytes.decode('utf-8'), from byte i on, acc being the text decoded
\* so far: ok = FALSE stands for UnicodeDecodeError
RECURSIVE DecodeFrom(_, _, _)
DecodeFrom(b, i, acc) ==
  IF i > Len(b) THEN [ok |-> TRUE, text |-> acc]
  ELSE IF SeqLen(b, i) = 0 THEN [ok |-> FALSE, text |-> <<>>]
  ELSE DecodeFrom(b, i + SeqLen(b, i),
                  Append(acc, CodePoint(b, i, SeqLen(b, i))))

Decode(b) == DecodeFrom(b, 1, <<>>)

\* variant of the test: c anywhere in the text
Contains(text, c) == \E i \in 1..Len(text) : text[i] = c

\* msg.endswith(';')
Endswith(text, c) == Len(text) > 0 /\ text[Len(text)] = c

\* msg[:-1]
DropLast(text) == SubSeq(text, 1, Len(text) - 1)

\* index of the first sep in text at or after i, 0 if there is none
RECURSIVE Find(_, _, _)
Find(text, sep, i) ==
  IF i > Len(text) THEN 0
  ELSE IF text[i] = sep THEN i
  ELSE Find(text, sep, i + 1)

\* text.split(sep): the list of the pieces between the separators
RECURSIVE Split(_, _)
Split(text, sep) ==
  LET k == Find(text, sep, 1) IN
  IF k = 0 THEN <<text>>
  ELSE <<SubSeq(text, 1, k - 1)>> \o Split(SubSeq(text, k + 1, Len(text)), sep)

\* str.isspace() of one code point
IsSpace(c) ==
  \/ c \in 9..13
  \/ c \in 28..32
  \/ c \in {133, 160, 5760, 8232, 8233, 8239, 8287, 12288}
  \/ c \in 8192..8202

\* str.strip()
RECURSIVE Strip(_)
Strip(text) ==
  IF text = <<>> THEN <<>>
  ELSE IF IsSpace(Head(text)) THEN Strip(Tail(text))
  ELSE IF IsSpace(text[Len(text)]) THEN Strip(DropLast(text))
  ELSE text

\* str.lower() of one code point; exact for U+0000..U+00FF and for the
\* uncased digits U+0660..U+0669, the repertoire the frames are drawn from
LowerChar(c) ==
  IF c >= 65 /\ c <= 90 THEN c + 32
  ELSE IF c >= 192 /\ c <= 222 /\ c # 215 THEN c + 32
  ELSE c

Lower(text) == [i \in 1..Len(text) |-> LowerChar(text[i])]

\* value of a decimal digit accepted by int(): ASCII and Arabic-Indic
\* digits (the decimal digits of the repertoire), -1 for anything else
DigitVal(c) ==
  IF c >= 48 /\ c <= 57 THEN c - 48
  ELSE IF c >= 1632 /\ c <= 1641 THEN c - 1632
  ELSE -1

UNDERSCORE == 95

\* digits with single underscores between them, as int() accepts
WellFormedDigits(d) ==
  /\ Len(d) > 0
  /\ DigitVal(d[1]) >= 0
  /\ DigitVal(d[Len(d)]) >= 0
  /\ \A i \in 1..Len(d) :
       \/ DigitVal(d[i]) >= 0
       \/ d[i] = UNDERSCORE /\ i < Len(d) /\ d[i + 1] # UNDERSCORE

RECURSIVE DigitsValue(_, _)
DigitsValue(d, acc) ==
  IF d = <<>> THEN acc
  ELSE IF Head(d) = UNDERSCORE THEN DigitsValue(Tail(d), acc)
  ELSE DigitsValue(Tail(d), acc * 10 + DigitVal(Head(d)))

\* int(value_str): ok = FALSE stands for ValueError
ParseInt(s) ==
  LET t == Strip(s)
      signed == Len(t) > 0 /\ t[1] \in {43, 45}
      d == IF signed THEN Tail(t) ELSE t
  IN IF WellFormedDigits(d)
       THEN [ok |-> TRUE,
             val |-> IF signed /\ t[1] = 45 THEN 0 - DigitsValue(d, 0)
                     ELSE DigitsValue(d, 0)]
       ELSE [ok |-> FALSE, val |-> 0]

\* str(n) for a natural number, and f"{L}" for an integer
RECURSIVE NatToStr(_)
NatToStr(n) ==
  IF n < 10 THEN <<48 + n>>
  ELSE NatToStr(n \div 10) \o <<48 + (n % 10)>>

IntToStr(n) == IF n < 0 THEN <<45>> \o NatToStr(0 - n) ELSE NatToStr(n)

(* ---------------------------------------------------------------------- *)
(* handle_intiface_message: the translator                                *)
(* ---------------------------------------------------------------------- *)

VIBRATE == Str(<<"v","i","b","r","a","t","e">>)
STOP == Str(<<"s","t","o","p">>)
GETBATTERY == Str(<<"g","e","t","b","a","t","t","e","r","y">>)
DEVICETYPE == Str(<<"d","e","v","i","c","e","t","y","p","e">>)

\* command = parts[0].strip()
CommandOf(parts) == Strip(parts[1])

\* value_str = parts[1].strip() if len(parts) > 1 else None
HasValue(parts) == Len(parts) > 1

\* variant of the value: the last part instead of the second
ValueStrLast(parts) == Strip(parts[Len(parts)])

ValueStr(parts) == Strip(parts[2])

\* variants of the range check: upper bound exclusive, upper bound missing
LevelInRangeExclusive(level) == 0 <= level /\ level < LOVENSE_MAX_LEVEL
LevelInRangeNoUpper(level) == 0 <= level

\* if 0 <= level <= 20
LevelInRange(level) == 0 <= level /\ level <= LOVENSE_MAX_LEVEL

\* speed = float(level) / 20.0, in thousandths
Speed(level) == (level * PERMILLE) \div LOVENSE_MAX_LEVEL

\* variant of the comparison: without command.lower()
MatchesCaseSensitive(command, word) == command = word

\* command_lower == word
Matches(command, word) == Lower(command) = word

\* The effect of one call: the speeds it puts on pump_command_queue (none
\* or one) and the diagnostic it logs.
handle_intiface_message(msg_bytes) ==
  LET dec == Decode(msg_bytes) IN
  IF ~dec.ok THEN [put |-> <<>>, report |-> "decode_error"]
  ELSE IF ~Endswith(dec.text, SEMICOLON)
    THEN [put |-> <<>>, report |-> "unrecognized"]
  ELSE
    LET parts == Split(DropLast(dec.text), COLON)
        command == CommandOf(parts)
    IN IF Matches(command, VIBRATE) /\ HasValue(parts)
         THEN LET level == ParseInt(ValueStr(parts)) IN
              IF ~level.ok THEN [put |-> <<>>, report |-> "invalid_value"]
              ELSE IF LevelInRange(level.val)
                THEN [put |-> <<Speed(level.val)>>, report |-> "vibrate"]
              ELSE [put |-> <<>>, report |-> "invalid_level"]
       ELSE IF Matches(command, STOP)
         THEN [put |-> <<0>>, report |-> "stop"]
       ELSE IF Matches(command, GETBATTERY)
         THEN [put |-> <<>>, report |-> "getbattery"]
       ELSE IF Matches(command, DEVICETYPE)
         THEN [put |-> <<>>, report |-> "devicetype"]
       ELSE [put |-> <<>>, report |-> "unhandled"]


(* ---------------------------------------------------------------------- *)
(* Frames the upstream endpoint can deliver                               *)
(* ---------------------------------------------------------------------- *)

\* the frame "<command>:<value>;" and the frame "<command>;"
CommandFrame(command, value) ==
  Encode(command \o <<COLON>> \o value \o <<SEMICOLON>>)

BareFrame(command) == Encode(command \o <<SEMICOLON>>)

\* the frame f"vibrate:{L};"
VibrateFrame(L) == CommandFrame(VIBRATE, IntToStr(L))

FOO == Str(<<"f","o","o">>)
ABC == Str(<<"a","b","c">>)

\* frames delivered while both link managers run
Frames ==
  { VibrateFrame(10),
    VibrateFrame(21),
    BareFrame(Str(<<"S","t","o","p">>)),
    <<118, 255>>,
    Encode(VIBRATE \o <<COLON>> \o IntToStr(10)),
    BareFrame(FOO),
    CommandFrame(VIBRATE, ABC),
    BareFrame(GETBATTERY),
    BareFrame(DEVICETYPE) }

\* aiohttp.WSMsgType values the receive loop distinguishes
NoMsg == [type |-> "NONE", data |-> <<>>]
BinaryMsg(b) == [type |-> "BINARY", data |-> b]
TextMsg == [type |-> "TEXT", data |-> <<>>]
ErrorMsg == [type |-> "ERROR", data |-> <<>>]
ClosedMsg == [type |-> "CLOSED", data |-> <<>>]

(* ---------------------------------------------------------------------- *)
(* State                                                                  *)
(* ---------------------------------------------------------------------- *)

VARIABLES
  ipc,                 \* position of intiface_client_loop
  iws,                 \* open websockets to the Intiface WSDM server
  isleep,              \* delay of the sleep intiface_client_loop is in
  message_id_counter,  \* the global of that name
  msg,                 \* the message last yielded by "async for msg in ws"
  ilog,                \* the last diagnostic of handle_intiface_message
  wsdm_out,            \* frames sent to Intiface on the current connection
  nrecv,               \* binary frames handed to handle_intiface_message
  lpc,                 \* position of lbis_websocket_sender
  lws,                 \* open websockets to the lBIS device
  lsleep,              \* delay of the sleep lbis_websocket_sender is in
  speed,               \* the local of that name: the value taken off the queue
  pump_command_queue,  \* the asyncio.Queue: its items, oldest first
  unfinished_tasks,    \* the queue's count of items put and not task_done
  put_log,             \* history: every speed put on the queue, in order
  put_down,            \* history: indices of the speeds put while the
                       \* actuator link had no open connection
  sent,                \* history: every payload sent to the lBIS device
  lost,                \* history: every item taken off the queue and not sent
  mainpc,              \* position of main / asyncio.run
  ended                \* how each task ended, "no" while it runs

ivars == <<ipc, iws, isleep, message_id_counter, msg, ilog, wsdm_out, nrecv>>
lvars == <<lpc, lws, lsleep, speed>>
qvars == <<pump_command_queue, unfinished_tasks, put_log, put_down>>
hvars == <<sent, lost>>
mvars == <<mainpc, ended>>
vars == <<ivars, lvars, qvars, hvars, mvars>>

Tasks == {"intiface", "lbis"}

\* no value in the local "speed"
NoSpeed == [speed |-> -1, seq |-> 0]

\* An item of the queue is the float put there; seq is its index in
\* put_log, kept with it to tell equal speeds apart.
Item(s, n) == [speed |-> s, seq |-> n]

\* handshake_msg
handshake_msg ==
  [identifier |-> "lovense",
   address |-> "6a797313-e431-4b9f-9fd0-3eef4c97df24",
   version |-> WSDM_VERSION]

Init ==
  /\ ipc = "start"
  /\ iws = 0
  /\ isleep = 0
  /\ message_id_counter = 1
  /\ msg = NoMsg
  /\ ilog = "none"
  /\ wsdm_out = <<>>
  /\ nrecv = 0
  /\ lpc = "start"
  /\ lws = 0
  /\ lsleep = 0
  /\ speed = NoSpeed
  /\ pump_command_queue = <<>>
  /\ unfinished_tasks = 0
  /\ put_log = <<>>
  /\ put_down = {}
  /\ sent = <<>>
  /\ lost = <<>>
  /\ mainpc = "gather"
  /\ ended = [t \in Tasks |-> "no"]

(* ---------------------------------------------------------------------- *)
(* pump_command_queue                                                     *)
(* ---------------------------------------------------------------------- *)

\* lbis_websocket_sender holds no open connection: it has not connected
\* yet, awaits ws_connect, or sleeps before the next attempt
LbisDown == lpc \in {"start", "connecting", "backoff"}

\* await pump_command_queue.put(s) for each s of speeds, in order; the
\* queue has no maxsize, so put never suspends
RECURSIVE QueuePut(_, _, _)
QueuePut(q, n, speeds) ==
  IF speeds = <<>> THEN q
  ELSE QueuePut(Append(q, Item(Head(speeds), n + 1)), n + 1, Tail(speeds))

(* ---------------------------------------------------------------------- *)
(* intiface_client_loop                                                   *)
(* ---------------------------------------------------------------------- *)

\* errors session.ws_connect(INTIFACE_WSDM_URL) ends with
IntifaceConnectErrors == {"ClientConnectorError", "InvalidHandshake", "Exception"}

\* where the loop goes after the try block: the 5 second sleep
IntifaceRetry ==
  /\ ipc' = "backoff"
  /\ isleep' = RETRY_DELAY

\* leaving "async with session.ws_connect(...) as ws" closes the websocket
IntifaceCloseWs == iws' = iws - 1

\* the task is scheduled for the first time and awaits ws_connect
IntifaceStart ==
  /\ ipc = "start"
  /\ ipc' = "connecting"
  /\ UNCHANGED <<iws, isleep, message_id_counter, msg, ilog, wsdm_out, nrecv>>
  /\ UNCHANGED <<lvars, qvars, hvars, mvars>>

\* variant of the connect: the counter keeps the value the previous
\* connection left
IntifaceConnectedNoReset ==
  /\ ipc = "connecting"
  /\ iws' = iws + 1
  /\ wsdm_out' = <<>>
  /\ ipc' = "handshake"
  /\ UNCHANGED <<isleep, message_id_counter, msg, ilog, nrecv>>
  /\ UNCHANGED <<lvars, qvars, hvars, mvars>>

\* ws_connect succeeded: reset the counter, build and send the handshake
IntifaceConnected ==
  /\ ipc = "connecting"
  /\ iws' = iws + 1
  /\ message_id_counter' = 1
  /\ wsdm_out' = <<>>
  /\ ipc' = "handshake"
  /\ UNCHANGED <<isleep, msg, ilog, nrecv>>
  /\ UNCHANGED <<lvars, qvars, hvars, mvars>>

\* ws_connect raised
IntifaceConnectFails ==
  /\ ipc = "connecting"
  /\ \E e \in IntifaceConnectErrors : IntifaceRetry
  /\ UNCHANGED <<iws, message_id_counter, msg, ilog, wsdm_out, nrecv>>
  /\ UNCHANGED <<lvars, qvars, hvars, mvars>>

\* await ws.send_str(handshake_json) completed
IntifaceHandshakeSent ==
  /\ ipc = "handshake"
  /\ wsdm_out' = Append(wsdm_out, handshake_msg)
  /\ ipc' = "listening"
  /\ UNCHANGED <<iws, isleep, message_id_counter, msg, ilog, nrecv>>
  /\ UNCHANGED <<lvars, qvars, hvars, mvars>>

\* await ws.send_str(handshake_json) raised
IntifaceHandshakeFails ==
  /\ ipc = "handshake"
  /\ IntifaceCloseWs
  /\ IntifaceRetry
  /\ UNCHANGED <<message_id_counter, msg, ilog, wsdm_out, nrecv>>
  /\ UNCHANGED <<lvars, qvars, hvars, mvars>>

\* variant of the put: a queue of maxsize 1, put suspends while it is full
IntifacePutBounded(b, r) ==
  /\ ipc = "listening"
  /\ nrecv < MaxRecv
  /\ Len(pump_command_queue) + Len(r.put) <= 1
  /\ pump_command_queue' = QueuePut(pump_command_queue, Len(put_log), r.put)
  /\ put_log' = put_log \o r.put
  /\ put_down' = (IF LbisDown
                    THEN put_down \cup ((Len(put_log) + 1)..Len(put_log'))
                    ELSE put_down)
  /\ unfinished_tasks' = unfinished_tasks + Len(r.put)
  /\ ilog' = r.report
  /\ msg' = BinaryMsg(b)
  /\ nrecv' = nrecv + 1
  /\ UNCHANGED <<ipc, iws, isleep, message_id_counter, wsdm_out>>
  /\ UNCHANGED <<lvars, hvars, mvars>>

\* variant of the put: the command is acknowledged to the Intiface server
IntifacePutAck(b, r) ==
  /\ ipc = "listening"
  /\ nrecv < MaxRecv
  /\ pump_command_queue' = QueuePut(pump_command_queue, Len(put_log), r.put)
  /\ put_log' = put_log \o r.put
  /\ put_down' = (IF LbisDown
                    THEN put_down \cup ((Len(put_log) + 1)..Len(put_log'))
                    ELSE put_down)
  /\ unfinished_tasks' = unfinished_tasks + Len(r.put)
  /\ ilog' = r.report
  /\ msg' = BinaryMsg(b)
  /\ nrecv' = nrecv + 1
  /\ wsdm_out' = (IF r.put # <<>> THEN Append(wsdm_out, "Ok") ELSE wsdm_out)
  /\ UNCHANGED <<ipc, iws, isleep, message_id_counter>>
  /\ UNCHANGED <<lvars, hvars, mvars>>

\* the effect r of handle_intiface_message on frame b takes place:
\* await pump_command_queue.put(speed) and the diagnostic; the loop then
\* waits for the next message
IntifacePut(b, r) ==
  /\ ipc = "listening"
  /\ nrecv < MaxRecv
  /\ pump_command_queue' = QueuePut(pump_command_queue, Len(put_log), r.put)
  /\ put_log' = put_log \o r.put
  /\ put_down' = (IF LbisDown
                    THEN put_down \cup ((Len(put_log) + 1)..Len(put_log'))
                    ELSE put_down)
  /\ unfinished_tasks' = unfinished_tasks + Len(r.put)
  /\ ilog' = r.report
  /\ msg' = BinaryMsg(b)
  /\ nrecv' = nrecv + 1
  /\ UNCHANGED <<ipc, iws, isleep, message_id_counter, wsdm_out>>
  /\ UNCHANGED <<lvars, hvars, mvars>>

\* "async for msg in ws" yields a BINARY message: handle_intiface_message
IntifaceRecvBinary(b) == IntifacePut(b, handle_intiface_message(b))

\* variant of the TEXT branch: the loop breaks as it does on CLOSED
IntifaceRecvTextBreaks ==
  /\ ipc = "listening"
  /\ msg' = TextMsg
  /\ IntifaceCloseWs
  /\ IntifaceRetry
  /\ UNCHANGED <<message_id_counter, ilog, wsdm_out, nrecv>>
  /\ UNCHANGED <<lvars, qvars, hvars, mvars>>

\* a TEXT message: only logged
IntifaceRecvText ==
  /\ ipc = "listening"
  /\ msg' = TextMsg
  /\ UNCHANGED <<ipc, iws, isleep, message_id_counter, ilog, wsdm_out, nrecv>>
  /\ UNCHANGED <<lvars, qvars, hvars, mvars>>

\* an ERROR or CLOSED message: break, leave the "async with", retry
IntifaceRecvEnd(m) ==
  /\ ipc = "listening"
  /\ msg' = m
  /\ IntifaceCloseWs
  /\ IntifaceRetry
  /\ UNCHANGED <<message_id_counter, ilog, wsdm_out, nrecv>>
  /\ UNCHANGED <<lvars, qvars, hvars, mvars>>

\* receiving raised: caught by "except Exception"
IntifaceRecvRaises ==
  /\ ipc = "listening"
  /\ IntifaceCloseWs
  /\ IntifaceRetry
  /\ UNCHANGED <<message_id_counter, msg, ilog, wsdm_out, nrecv>>
  /\ UNCHANGED <<lvars, qvars, hvars, mvars>>

\* variant of the wake-up: the function returns instead of looping
IntifaceWakeReturn ==
  /\ ipc = "backoff"
  /\ ipc' = "returned"
  /\ isleep' = 0
  /\ UNCHANGED <<iws, message_id_counter, msg, ilog, wsdm_out, nrecv>>
  /\ UNCHANGED <<lvars, qvars, hvars, mvars>>

\* await asyncio.sleep(5) returned: next turn of "while True"
IntifaceWake ==
  /\ ipc = "backoff"
  /\ ipc' = "connecting"
  /\ isleep' = 0
  /\ UNCHANGED <<iws, message_id_counter, msg, ilog, wsdm_out, nrecv>>
  /\ UNCHANGED <<lvars, qvars, hvars, mvars>>


(* ---------------------------------------------------------------------- *)
(* lbis_websocket_sender                                                  *)
(* ---------------------------------------------------------------------- *)

\* errors session.ws_connect(LBIS_WS_URL, timeout=10) ends with
LbisConnectErrors ==
  {"ClientConnectorError", "TimeoutError", "InvalidHandshake", "Exception"}

\* variant of the retry: straight to the next turn of "while True"
LbisRetryNoSleep ==
  /\ lpc' = "connecting"
  /\ lsleep' = 0

\* where the loop goes after the try block: the 5 second sleep
LbisRetry ==
  /\ lpc' = "backoff"
  /\ lsleep' = RETRY_DELAY

\* leaving "async with session.ws_connect(...) as ws" closes the websocket
LbisCloseWs == lws' = lws - 1

\* payload = json.dumps({"pump": speed})
Payload(item) == [pump |-> item.speed, seq |-> item.seq]

\* the task is scheduled for the first time and awaits ws_connect
LbisStart ==
  /\ lpc = "start"
  /\ lpc' = "connecting"
  /\ UNCHANGED <<lws, lsleep, speed>>
  /\ UNCHANGED <<ivars, qvars, hvars, mvars>>

\* ws_connect succeeded: enter the inner loop and wait on the queue
LbisConnected ==
  /\ lpc = "connecting"
  /\ lws' = lws + 1
  /\ lpc' = "get"
  /\ UNCHANGED <<lsleep, speed>>
  /\ UNCHANGED <<ivars, qvars, hvars, mvars>>

\* variant of the failed connect: the queue is emptied before the retry
LbisConnectFailsClear ==
  /\ lpc = "connecting"
  /\ \E e \in LbisConnectErrors : LbisRetry
  /\ pump_command_queue' = <<>>
  /\ UNCHANGED <<lws, speed>>
  /\ UNCHANGED <<unfinished_tasks, put_log, put_down>>
  /\ UNCHANGED <<ivars, hvars, mvars>>

\* ws_connect raised
LbisConnectFails ==
  /\ lpc = "connecting"
  /\ \E e \in LbisConnectErrors : LbisRetry
  /\ UNCHANGED <<lws, speed>>
  /\ UNCHANGED <<ivars, qvars, hvars, mvars>>

\* variant of the get: the newest item instead of the oldest
LbisGetNewest ==
  /\ lpc = "get"
  /\ pump_command_queue # <<>>
  /\ speed' = pump_command_queue[Len(pump_command_queue)]
  /\ pump_command_queue'
       = SubSeq(pump_command_queue, 1, Len(pump_command_queue) - 1)
  /\ lpc' = "send"
  /\ UNCHANGED <<lws, lsleep>>
  /\ UNCHANGED <<unfinished_tasks, put_log, put_down>>
  /\ UNCHANGED <<ivars, hvars, mvars>>

\* variant of the get: the item is read and stays in the queue
LbisGetPeek ==
  /\ lpc = "get"
  /\ pump_command_queue # <<>>
  /\ speed' = Head(pump_command_queue)
  /\ lpc' = "send"
  /\ UNCHANGED <<lws, lsleep>>
  /\ UNCHANGED <<pump_command_queue, unfinished_tasks, put_log, put_down>>
  /\ UNCHANGED <<ivars, hvars, mvars>>

\* speed = await pump_command_queue.get(): returns once the queue has an
\* item, then the task awaits ws.send_str(payload)
LbisGet ==
  /\ lpc = "get"
  /\ pump_command_queue # <<>>
  /\ speed' = Head(pump_command_queue)
  /\ pump_command_queue' = Tail(pump_command_queue)
  /\ lpc' = "send"
  /\ UNCHANGED <<lws, lsleep>>
  /\ UNCHANGED <<unfinished_tasks, put_log, put_down>>
  /\ UNCHANGED <<ivars, hvars, mvars>>

\* await ws.send_str(payload) completed; task_done; next turn of the loop
LbisSent ==
  /\ lpc = "send"
  /\ sent' = Append(sent, Payload(speed))
  /\ unfinished_tasks' = unfinished_tasks - 1
  /\ speed' = NoSpeed
  /\ lpc' = "get"
  /\ UNCHANGED <<lws, lsleep>>
  /\ UNCHANGED <<pump_command_queue, put_log, put_down, lost>>
  /\ UNCHANGED <<ivars, mvars>>

\* variant of the failed send: the item goes back to the head of the queue
LbisSendFailsRequeue ==
  /\ lpc = "send"
  /\ lost' = Append(lost, speed)
  /\ pump_command_queue' = <<speed>> \o pump_command_queue
  /\ speed' = NoSpeed
  /\ LbisCloseWs
  /\ LbisRetry
  /\ UNCHANGED <<unfinished_tasks, put_log, put_down, sent>>
  /\ UNCHANGED <<ivars, mvars>>

\* await ws.send_str(payload) raised: "except Exception", break, retry;
\* the item is neither sent nor put back
LbisSendFails ==
  /\ lpc = "send"
  /\ lost' = Append(lost, speed)
  /\ speed' = NoSpeed
  /\ LbisCloseWs
  /\ LbisRetry
  /\ UNCHANGED <<qvars, sent>>
  /\ UNCHANGED <<ivars, mvars>>

\* variant of the wake-up: the function returns instead of looping
LbisWakeReturn ==
  /\ lpc = "backoff"
  /\ lpc' = "returned"
  /\ lsleep' = 0
  /\ UNCHANGED <<lws, speed>>
  /\ UNCHANGED <<ivars, qvars, hvars, mvars>>

\* await asyncio.sleep(5) returned: next turn of "while True"
LbisWake ==
  /\ lpc = "backoff"
  /\ lpc' = "connecting"
  /\ lsleep' = 0
  /\ UNCHANGED <<lws, speed>>
  /\ UNCHANGED <<ivars, qvars, hvars, mvars>>

(* ---------------------------------------------------------------------- *)
(* Cancellation, main and asyncio.run                                     *)
(* ---------------------------------------------------------------------- *)

\* positions at which a task holds an open websocket
IntifaceInWs == {"handshake", "listening"}
LbisInWs == {"get", "send"}

\* CancelledError unwinds intiface_client_loop: no handler catches it
IntifaceUnwind ==
  /\ ipc' = "done"
  /\ iws' = (IF ipc \in IntifaceInWs THEN iws - 1 ELSE iws)
  /\ isleep' = 0
  /\ UNCHANGED <<message_id_counter, msg, ilog, wsdm_out, nrecv>>

\* variant of the unwinding: the inner handler swallows CancelledError
\* and breaks to the retry as it does for a failed send
LbisUnwindAbsorbed ==
  /\ lpc' = (IF lpc \in LbisInWs THEN "backoff" ELSE "done")
  /\ lws' = (IF lpc \in LbisInWs THEN lws - 1 ELSE lws)
  /\ lsleep' = (IF lpc \in LbisInWs THEN RETRY_DELAY ELSE 0)
  /\ lost' = (IF lpc = "send" THEN Append(lost, speed) ELSE lost)
  /\ speed' = NoSpeed

\* CancelledError unwinds lbis_websocket_sender: the inner handler logs and
\* re-raises, "except Exception" does not catch it
LbisUnwind ==
  /\ lpc' = "done"
  /\ lws' = (IF lpc \in LbisInWs THEN lws - 1 ELSE lws)
  /\ lsleep' = 0
  /\ lost' = (IF lpc = "send" THEN Append(lost, speed) ELSE lost)
  /\ speed' = NoSpeed

\* a CancelledError is delivered to one task where it is suspended
CancelIntiface ==
  /\ mainpc = "gather"
  /\ ipc # "done"
  /\ IntifaceUnwind
  /\ ended' = [ended EXCEPT !["intiface"] = "raised"]
  /\ UNCHANGED mainpc
  /\ UNCHANGED <<lvars, qvars, hvars>>

CancelLbis ==
  /\ mainpc = "gather"
  /\ lpc # "done"
  /\ LbisUnwind
  /\ ended' = [ended EXCEPT !["lbis"] = "raised"]
  /\ UNCHANGED mainpc
  /\ UNCHANGED <<ivars, qvars, sent>>

\* every task still running is cancelled and unwinds
StopAll(how) ==
  /\ IF ipc # "done" THEN IntifaceUnwind ELSE UNCHANGED ivars
  /\ IF lpc # "done" THEN LbisUnwind ELSE UNCHANGED <<lvars, lost>>
  /\ ended' = [t \in Tasks |-> IF ended[t] = "no" THEN how ELSE ended[t]]
  /\ UNCHANGED <<qvars, sent>>

\* await asyncio.gather(intiface_task, lbis_sender_task): the first
\* exception of a task is raised in main; asyncio.run then cancels the
\* tasks that remain and closes the loop
GatherRaises ==
  /\ mainpc = "gather"
  /\ \E t \in Tasks : ended[t] = "raised"
  /\ StopAll("torn_down")
  /\ mainpc' = "exited"

\* Ctrl-C: asyncio.run cancels main, gather cancels both tasks
KeyboardInterrupt ==
  /\ mainpc = "gather"
  /\ StopAll("interrupted")
  /\ mainpc' = "exited"

(* ---------------------------------------------------------------------- *)
(* The program                                                            *)
(* ---------------------------------------------------------------------- *)

\* the steps of the two tasks
Run ==
  \/ IntifaceStart
  \/ IntifaceConnected
  \/ IntifaceConnectFails
  \/ IntifaceHandshakeSent
  \/ IntifaceHandshakeFails
  \/ \E b \in Frames : IntifaceRecvBinary(b)
  \/ IntifaceRecvText
  \/ \E m \in {ErrorMsg, ClosedMsg} : IntifaceRecvEnd(m)
  \/ IntifaceRecvRaises
  \/ IntifaceWake
  \/ LbisStart
  \/ LbisConnected
  \/ LbisConnectFails
  \/ LbisGet
  \/ LbisSent
  \/ LbisSendFails
  \/ LbisWake

\* the steps of the tasks, cancellation of a task, and the end of the process
Next ==
  \/ Run
  \/ CancelIntiface
  \/ CancelLbis
  \/ GatherRaises
  \/ KeyboardInterrupt

Spec == Init /\ [][Next]_vars

\* Scheduling of lbis_websocket_sender: the event loop resumes a task that
\* can run (first step, end of the sleep, an item on the queue); a
\* connection attempt ends (timeout=10) and a send ends; and the lBIS
\* endpoint accepts a connection sooner or later.  LiveSpec is the program
\* while both tasks are scheduled: no task is cancelled and the process is
\* not interrupted.
LbisFairness ==
  /\ WF_vars(LbisStart)
  /\ WF_vars(LbisWake)
  /\ WF_vars(LbisGet)
  /\ WF_vars(LbisConnected \/ LbisConnectFails)
  /\ SF_vars(LbisConnected)
  /\ WF_vars(LbisSent \/ LbisSendFails)

\* Scheduling of intiface_client_loop: the event loop resumes the task
\* (first step, end of the sleep), and a connection attempt and the send
\* of the handshake end one way or the other.  Nothing is assumed of the
\* frames the Intiface server sends.
IntifaceFairness ==
  /\ WF_vars(IntifaceStart)
  /\ WF_vars(IntifaceWake)
  /\ WF_vars(IntifaceConnected \/ IntifaceConnectFails)
  /\ WF_vars(IntifaceHandshakeSent \/ IntifaceHandshakeFails)

LiveSpec == Init /\ [][Run]_vars /\ LbisFairness /\ IntifaceFairness


(* ---------------------------------------------------------------------- *)
(* The translator on its own: one connection in Listening receives a      *)
(* frame drawn from TFrames and then the same frame with the case of its  *)
(* command token changed.                                                 *)
(* ---------------------------------------------------------------------- *)

\* the other case of an ASCII letter
SwapCase(c) ==
  IF c >= 97 /\ c <= 122 THEN c - 32
  ELSE IF c >= 65 /\ c <= 90 THEN c + 32
  ELSE c

Respell(text, S) ==
  [i \in 1..Len(text) |-> IF i \in S THEN SwapCase(text[i]) ELSE text[i]]

\* the sets of positions whose case is changed in a token of n characters
CaseSets(n) ==
  SUBSET (1..(IF n < CaseWidth THEN n ELSE CaseWidth)) \cup {1..n}

\* the characters of text before the first ':' and before the final ';'
TokenLen(text) ==
  LET k == Find(text, COLON, 1) IN
  IF k > 0 THEN k - 1
  ELSE IF Endswith(text, SEMICOLON) THEN Len(text) - 1
  ELSE Len(text)

\* the frames that differ from frame b in the case of the token only
Respellings(b) ==
  LET d == Decode(b) IN
  IF ~d.ok THEN {b}
  ELSE { Encode(Respell(d.text, S)) : S \in CaseSets(TokenLen(d.text)) }

Tokens ==
  { VIBRATE, STOP, GETBATTERY, DEVICETYPE, FOO, <<>>,
    Str(<<" ","s","t","o","p"," ">>),
    Str(<<"TAB","v","i","b","r","a","t","e","NBSP">>),
    Str(<<"v","i","b","r","a","t","e","s">>),
    Str(<<"s","t","o","p","E-ACUTE">>) }

SpelledTokens ==
  UNION { { Respell(t, S) : S \in CaseSets(Len(t)) } : t \in Tokens }

Levels == (0 - MaxLevel)..MaxLevel

\* what follows the ':' of a frame
Values ==
  { IntToStr(L) : L \in Levels } \cup
  { <<>>, ABC,
    Str(<<"+","5">>), Str(<<"-","0">>), Str(<<"0","0","7">>),
    Str(<<"1","_","0">>), Str(<<"_","1">>), Str(<<"1","_","_","0">>),
    Str(<<" ","7"," ">>), Str(<<"2"," ","0">>), Str(<<"1",".","5">>),
    Str(<<"+">>), Str(<<"ARABIC-5">>), Str(<<"1","0",":","5">>),
    Str(<<"a","b","c",":","5">>),
    Str(<<"5",";","v","i","b","r","a","t","e",":","1","0">>) }

\* what follows the token: nothing, or ':' and a value
Arguments == { <<>> } \cup { <<COLON>> \o v : v \in Values }

\* how the text ends
Endings == { <<SEMICOLON>>, <<>>, <<SEMICOLON, 32>> }

\* payloads that are not UTF-8
BadBytes ==
  { <<255>>, <<118, 255, 59>>, Encode(VIBRATE) \o <<58, 195>>,
    <<192, 128, 59>>, <<237, 160, 128, 59>>, <<115, 116, 111, 112, 128, 59>> }

TFrames ==
  { Encode(t \o a \o e) : t \in SpelledTokens, a \in Arguments, e \in Endings }
  \cup BadBytes

TInit ==
  /\ ipc = "listening"
  /\ iws = 1
  /\ isleep = 0
  /\ message_id_counter = 1
  /\ msg = NoMsg
  /\ ilog = "none"
  /\ wsdm_out = <<handshake_msg>>
  /\ nrecv = 0
  /\ lpc = "start"
  /\ lws = 0
  /\ lsleep = 0
  /\ speed = NoSpeed
  /\ pump_command_queue = <<>>
  /\ unfinished_tasks = 0
  /\ put_log = <<>>
  /\ put_down = {}
  /\ sent = <<>>
  /\ lost = <<>>
  /\ mainpc = "gather"
  /\ ended = [t \in Tasks |-> "no"]

TNext ==
  /\ nrecv < 2
  /\ \E b \in (IF nrecv = 0 THEN TFrames ELSE Respellings(msg.data)) :
       IntifaceRecvBinary(b)

TransSpec == TInit /\ [][TNext]_vars


(* ---------------------------------------------------------------------- *)
(* Properties of the translator (TransSpec)                               *)
(* ---------------------------------------------------------------------- *)

\* the step is a call of handle_intiface_message
HandlesFrame == nrecv' = nrecv + 1

\* the step puts exactly the speed v on the queue
PutsOne(v) ==
  /\ pump_command_queue'
       = Append(pump_command_queue, Item(v, Len(put_log) + 1))
  /\ put_log' = Append(put_log, v)

\* the step puts nothing on the queue
PutsNothing ==
  /\ pump_command_queue' = pump_command_queue
  /\ put_log' = put_log

\* the frame f"vibrate:{L};" of every level of the model
VibrateFrames == [L \in Levels |-> VibrateFrame(L)]

\* C1: a frame "vibrate:<L>;" puts a value on the queue iff 0 <= L <= 20,
\* and then exactly one value, L/20; for any other L the queue is left
\* unchanged and the level is reported invalid.
C1_VibrateLevel ==
  [][\A L \in Levels :
       (HandlesFrame /\ msg' = BinaryMsg(VibrateFrames[L]))
       => IF 0 <= L /\ L <= 20
            THEN /\ \E v \in 0..PERMILLE : v * 20 = L * PERMILLE /\ PutsOne(v)
                 /\ ilog' = "vibrate"
            ELSE PutsNothing /\ ilog' = "invalid_level"]_vars

\* C1 witness: "vibrate:20;" was handled and put 1.0 on the queue
C1_Witness ==
  /\ nrecv = 1
  /\ msg = BinaryMsg(VibrateFrame(20))
  /\ put_log = <<PERMILLE>>
  /\ pump_command_queue = <<Item(PERMILLE, 1)>>

\* every spelling of "vibrate" the model varies
VibrateSpellings == { Respell(VIBRATE, S) : S \in CaseSets(Len(VIBRATE)) }

\* values that are not integers
NonIntegers ==
  { <<>>, ABC, Str(<<"1",".","5">>), Str(<<"+">>), Str(<<"_","1">>),
    Str(<<"2"," ","0">>), Str(<<"1","_","_","0">>) }

\* terminated vibrate frames with the argument missing or not an integer
VibrateNoIntegerFrames ==
  { BareFrame(t) : t \in VibrateSpellings } \cup
  { CommandFrame(t, v) : t \in VibrateSpellings, v \in NonIntegers }

\* C2: a terminated vibrate frame (any case) whose argument is missing or
\* is not an integer produces no value and the invalid-value report.
C2_InvalidValue ==
  [][(HandlesFrame /\ msg'.data \in VibrateNoIntegerFrames)
       => PutsNothing /\ ilog' = "invalid_value"]_vars

\* every spelling of "stop" the model varies, and the stop frames
StopSpellings == { Respell(STOP, S) : S \in CaseSets(Len(STOP)) }

StopFrames ==
  { BareFrame(t) : t \in StopSpellings } \cup
  { CommandFrame(t, v) : t \in StopSpellings, v \in Values }

\* C3: the outcome of a frame (the values put and the report) is the same
\* for every upper/lower-case spelling of its command token, and "stop;" in
\* any case, with or without an argument, puts exactly one value 0.0.
\* In put_log' = put_log \o put_log the first frame's values are put_log
\* (the queue was empty before it) and the second frame adds the same.
C3_CaseInsensitive ==
  [][/\ (nrecv = 1 /\ nrecv' = 2 /\ msg'.data \in Respellings(msg.data))
          => ilog' = ilog /\ put_log' = put_log \o put_log
     /\ (HandlesFrame /\ msg'.data \in StopFrames)
          => PutsOne(0) /\ ilog' = "stop"]_vars

\* C3 witness: "sTop;" and then "STOP;" were handled, each put 0.0
C3_Witness ==
  /\ nrecv = 2
  /\ msg = BinaryMsg(BareFrame(Str(<<"S","T","O","P">>)))
  /\ put_log = <<0, 0>>
  /\ Len(pump_command_queue) = 2

\* texts that do not end with ';'
UnterminatedFrames ==
  { Encode(t \o a \o e) :
      t \in SpelledTokens, a \in Arguments, e \in Endings \ {<<SEMICOLON>>} }

\* terminated texts whose command token is not in the vocabulary
UnknownTokens ==
  UNION { { Respell(t, S) : S \in CaseSets(Len(t)) } :
          t \in { FOO, <<>>, Str(<<"v","i","b","r","a","t","e","s">>),
                  Str(<<"s","t","o","p","E-ACUTE">>) } }

UnknownTokenFrames ==
  { Encode(t \o a \o <<SEMICOLON>>) : t \in UnknownTokens, a \in Arguments }

\* C4: a text that does not end with ';' produces no value and the report
\* "unrecognized", whatever its content; a text ending with ';' whose token
\* is not in the vocabulary produces no value and the report "unhandled".
C4_UnrecognizedUnhandled ==
  [][HandlesFrame =>
       /\ msg'.data \in UnterminatedFrames
            => PutsNothing /\ ilog' = "unrecognized"
       /\ msg'.data \in UnknownTokenFrames
            => PutsNothing /\ ilog' = "unhandled"]_vars

\* C4 witness: "vibrate:10" without terminator was reported unrecognized
C4_Witness ==
  /\ nrecv = 1
  /\ msg = BinaryMsg(Encode(VIBRATE \o <<COLON>> \o IntToStr(10)))
  /\ ilog = "unrecognized"
  /\ put_log = <<>>


(* ---------------------------------------------------------------------- *)
(* Properties of the two link managers and the queue (Spec)               *)
(* ---------------------------------------------------------------------- *)

\* a speed L/20 for an integer L in 0..20
ValidIntensity(v) == \E L \in 0..20 : v * 20 = L * PERMILLE

\* C5: every element of the command queue is a valid normalized intensity,
\* L/20 for an integer L in 0..20, whatever frames arrive and however the
\* two links connect and disconnect.
C5_QueueValid ==
  \A i \in 1..Len(pump_command_queue) :
    ValidIntensity(pump_command_queue[i].speed)

\* C5 witness: after a valid and an out-of-range frame the queue holds one
\* value, while the actuator link is in its backoff wait
C5_Witness ==
  /\ Len(pump_command_queue) = 1
  /\ msg = BinaryMsg(VibrateFrame(21))
  /\ ilog = "invalid_level"
  /\ lpc = "backoff"

\* C6: the payloads sent to the actuator are an order-preserving
\* subsequence of the values put on the queue: each is the value put under
\* its index, and the indices increase.
C6_FifoOrder ==
  /\ \A i \in 1..Len(sent) :
       /\ sent[i].seq \in 1..Len(put_log)
       /\ sent[i].pump = put_log[sent[i].seq]
  /\ \A i, j \in 1..Len(sent) : i < j => sent[i].seq < sent[j].seq

\* C6 witness: two different values, both put while the actuator link was
\* down, were sent after it connected, in the order they were put
C6_Witness ==
  /\ Len(sent) = 2
  /\ put_down = {1, 2}
  /\ sent[1].seq = 1
  /\ sent[2].seq = 2
  /\ sent[1].pump # sent[2].pump

\* the value put under index n was sent to the actuator / was taken off the
\* queue and not sent
WasSent(n) == \E i \in 1..Len(sent) : sent[i].seq = n
WasLost(n) == \E i \in 1..Len(lost) : lost[i].seq = n

\* C7: a value put on the queue while the actuator link has no open
\* connection is eventually sent to the actuator.
C7_EventuallySent ==
  \A n \in 1..MaxRecv : (n \in put_down) ~> WasSent(n)

\* C7 as amended: it is eventually sent, unless the send of that value
\* fails, in which case it is dropped.
C7_EventuallySentOrDropped ==
  \A n \in 1..MaxRecv : (n \in put_down) ~> (WasSent(n) \/ WasLost(n))

\* C7 witness: a value put while the link was down has been sent
C7_Witness ==
  \E n \in put_down : WasSent(n)

\* the frame "vibrate:10;" and what handle_intiface_message makes of it
Vibrate10 == VibrateFrame(10)
Vibrate10Effect == handle_intiface_message(Vibrate10)

\* C8: while the upstream link is Listening a valid frame is accepted and
\* its value appended to the queue, whatever the state of the actuator
\* link and however long the queue is (nrecv < MaxRecv is the bound of the
\* model on the frames of a run).
C8_UpstreamNeverBlocked ==
  (ipc = "listening" /\ nrecv < MaxRecv)
    => ENABLED (IntifacePut(Vibrate10, Vibrate10Effect) /\ PutsOne(500))

\* C8 witness: a value was put while the actuator link was down, the link
\* is in its backoff wait, and the upstream link is Listening and can
\* take a further frame
C8_Witness ==
  /\ ipc = "listening"
  /\ lpc = "backoff"
  /\ Len(pump_command_queue) >= 1
  /\ put_down # {}
  /\ nrecv < MaxRecv

\* C9: when one link manager task terminates abnormally the other one is
\* not stopped because of it, and the process stays alive as long as a
\* task is running.
C9_FailureIsolation ==
  /\ \A t \in Tasks : ended[t] # "torn_down"
  /\ (ipc # "done" \/ lpc # "done") => mainpc = "gather"

\* positions of an attempt of intiface_client_loop / lbis_websocket_sender
IntifaceAttempt == {"connecting", "handshake", "listening"}
LbisAttempt == {"connecting", "get", "send"}

\* C10: on either link a connection attempt that is not the first one
\* starts only out of the 5 second backoff wait, every attempt that ends
\* (without the task being cancelled) ends in that wait, and no attempt
\* starts while a connection of the link is still open.
C10_BackoffBeforeReconnect ==
  /\ [][/\ (ipc' = "connecting" /\ ipc # "connecting")
             => (ipc = "start" \/ (ipc = "backoff" /\ isleep = 5))
        /\ (lpc' = "connecting" /\ lpc # "connecting")
             => (lpc = "start" \/ (lpc = "backoff" /\ lsleep = 5))
        /\ (ipc \in IntifaceAttempt /\ ipc' \notin IntifaceAttempt)
             => (ipc' = "done" \/ (ipc' = "backoff" /\ isleep' = 5))
        /\ (lpc \in LbisAttempt /\ lpc' \notin LbisAttempt)
             => (lpc' = "done" \/ (lpc' = "backoff" /\ lsleep' = 5))]_vars
  /\ [](/\ iws \in {0, 1}
        /\ lws \in {0, 1}
        /\ ipc = "connecting" => iws = 0
        /\ lpc = "connecting" => lws = 0)

\* C10 witness: both links are in a new attempt, the upstream one after a
\* close by the server, the actuator one after a failed send
C10_Witness ==
  /\ ipc = "connecting"
  /\ msg = ClosedMsg
  /\ lpc = "connecting"
  /\ Len(lost) = 1


(* ---------------------------------------------------------------------- *)
(* send_intiface_message                                                  *)
(* ---------------------------------------------------------------------- *)
(* The function has no caller in the module.  IdSpec calls it where a     *)
(* reply to the Intiface server can be sent, on the open upstream         *)
(* connection after the handshake, next to the steps that open and close  *)
(* that connection.  A message {type: body} is [type, body]; the field    *)
(* "assigned" records that the Id of the message was set by the function. *)
(* ---------------------------------------------------------------------- *)

\* messages sent on one connection, over all calls
MaxMsgs == 3
\* largest Id a message carries when it is passed in
MaxPresetId == 2

\* if msg_type in ["Ok", "Error"]
ID_TYPES == {"Ok", "Error"}

MessageTypes == ID_TYPES \cup {"ScanningFinished"}

\* the body {} and the bodies {"Id": n}
NoFields == [k \in {} |-> 0]
Bodies == {NoFields} \cup {[Id |-> n] : n \in 1..MaxPresetId}

Messages ==
  {[type |-> t, body |-> b, assigned |-> FALSE] : t \in MessageTypes, b \in Bodies}

\* the lists of one to n messages
MessageLists(n) == UNION {[1..k -> Messages] : k \in 1..n}

\* variant of the test: every message without an Id is given one
NeedsIdAnyType(msg_dict) == "Id" \notin DOMAIN msg_dict.body

\* msg_type in ["Ok", "Error"] and "Id" not in msg_dict[msg_type]
NeedsId(msg_dict) ==
  /\ msg_dict.type \in ID_TYPES
  /\ "Id" \notin DOMAIN msg_dict.body

\* the loop over message_list: the messages as they are serialised, and
\* the counter after the loop
RECURSIVE AssignIds(_, _, _)
AssignIds(message_list, counter, done) ==
  IF message_list = <<>>
    THEN [messages |-> done, counter |-> counter]
    ELSE LET msg_dict == Head(message_list)
         IN IF NeedsId(msg_dict)
              THEN AssignIds(Tail(message_list), counter + 1,
                             Append(done, [type |-> msg_dict.type,
                                           body |-> [Id |-> counter] @@ msg_dict.body,
                                           assigned |-> TRUE]))
              ELSE AssignIds(Tail(message_list), counter,
                             Append(done, msg_dict))

\* the messages of the frames sent on the connection after the handshake
RECURSIVE MessagesIn(_)
MessagesIn(frames) ==
  IF frames = <<>>
    THEN <<>>
    ELSE (IF "messages" \in DOMAIN Head(frames)
            THEN Head(frames).messages
            ELSE <<>>) \o MessagesIn(Tail(frames))

\* one call: Ids are assigned, the list is serialised and
\* await ws.send_str(msg_json) completes
send_intiface_message(message_list) ==
  /\ ipc = "listening"
  /\ Len(MessagesIn(wsdm_out)) + Len(message_list) <= MaxMsgs
  /\ LET r == AssignIds(message_list, message_id_counter, <<>>)
     IN /\ message_id_counter' = r.counter
        /\ wsdm_out' = Append(wsdm_out, [messages |-> r.messages])
  /\ UNCHANGED <<ipc, iws, isleep, msg, ilog, nrecv>>
  /\ UNCHANGED <<lvars, qvars, hvars, mvars>>

\* the upstream link with calls of send_intiface_message
IdNext ==
  \/ IntifaceStart
  \/ IntifaceConnected
  \/ IntifaceConnectFails
  \/ IntifaceHandshakeSent
  \/ IntifaceHandshakeFails
  \/ \E m \in {ErrorMsg, ClosedMsg} : IntifaceRecvEnd(m)
  \/ IntifaceWake
  \/ \E message_list \in MessageLists(MaxMsgs - Len(MessagesIn(wsdm_out))) :
       send_intiface_message(message_list)

IdSpec == Init /\ [][IdNext]_vars

(* ---------------------------------------------------------------------- *)
(* Properties settled after C10                                           *)
(* ---------------------------------------------------------------------- *)

\* C11: on either link the backoff wait that follows a terminal state is
\* always followed by a new connection attempt, however many attempts came
\* before, and the first attempt is made; no loop comes to rest outside an
\* open connection.
C11_ReconnectForever ==
  /\ (lpc = "backoff") ~> (lpc = "connecting")
  /\ (ipc = "backoff") ~> (ipc = "connecting")
  /\ (lpc = "start") ~> (lpc = "connecting")
  /\ (ipc = "start") ~> (ipc = "connecting")
  /\ []<>(lpc \in {"connecting", "get", "send"})
  /\ []<>(ipc \in {"connecting", "handshake", "listening"})

\* C11 witness: the actuator link attempts again after two failed sends,
\* the upstream link after an error frame
C11_Witness ==
  /\ lpc = "connecting"
  /\ Len(lost) = 2
  /\ ipc = "connecting"
  /\ msg = ErrorMsg

\* sequence numbers of the items of a sequence of tagged values
Seqs(items) == {items[i].seq : i \in 1..Len(items)}

\* C12: a failed send loses the value in flight: the step leaves the queue
\* as it is, closes the connection and starts the backoff wait; a lost value
\* is never in the queue, in flight or sent afterwards; and every value
\* sent is the oldest one not yet sent or lost, so the value sent after a
\* loss is the one that was behind it.
C12_SendFailureLosesValue ==
  /\ [](\A n \in Seqs(lost) :
          /\ n \notin Seqs(sent)
          /\ n \notin Seqs(pump_command_queue)
          /\ n # speed.seq)
  /\ [][(lpc = "send" /\ lpc' = "backoff")
          => /\ pump_command_queue' = pump_command_queue
             /\ lost' = Append(lost, speed)
             /\ sent' = sent
             /\ lws' = lws - 1
             /\ lsleep' = RETRY_DELAY]_vars
  /\ [][(sent' # sent)
          => /\ sent' = Append(sent, Payload(speed))
             /\ speed.seq = Len(sent) + Len(lost) + 1]_vars

\* C12 witness: the first value was lost to a failed send and the second
\* was sent on the next connection
C12_Witness ==
  /\ Len(lost) = 1
  /\ lost[1].seq = 1
  /\ Len(sent) = 1
  /\ sent[1].seq = 2
  /\ lpc = "get"

\* C13: the frames sent on an upstream connection are the handshake and
\* nothing else: none before the handshake is sent, the handshake
\* {identifier, address, version 0} alone from then on; it is sent before
\* any frame of the connection is handled, no handled frame adds a reply,
\* and a connection whose handshake could not be sent goes to the backoff
\* wait without listening.
C13_HandshakeOnly ==
  /\ [](/\ wsdm_out \in {<<>>, <<handshake_msg>>}
        /\ (ipc = "handshake") => (wsdm_out = <<>>)
        /\ (ipc = "listening") => (wsdm_out = <<handshake_msg>>)
        /\ DOMAIN handshake_msg = {"identifier", "address", "version"}
        /\ handshake_msg.version = 0)
  /\ [][(msg' # msg \/ nrecv' # nrecv)
          => /\ wsdm_out = <<handshake_msg>>
             /\ wsdm_out' = wsdm_out]_vars
  /\ [][(ipc = "connecting" /\ ipc' # ipc)
          => \/ ipc' = "handshake" /\ wsdm_out' = <<>>
             \/ ipc' \in {"backoff", "done"} /\ wsdm_out' = wsdm_out]_vars
  /\ [][(ipc = "handshake" /\ ipc' # ipc)
          => \/ ipc' = "listening" /\ wsdm_out' = <<handshake_msg>>
             \/ ipc' \in {"backoff", "done"} /\ wsdm_out' = <<>>]_vars

\* C13 witness: two commands were translated and enqueued on a connection
\* and the handshake is still the only frame sent on it
C13_Witness ==
  /\ ipc = "listening"
  /\ nrecv = 2
  /\ Len(put_log) = 2
  /\ wsdm_out = <<handshake_msg>>

\* binary frames that carry no command: undecodable, unterminated,
\* unknown token, invalid vibrate argument, getbattery, devicetype
NoCommandFrames ==
  { <<118, 255>>,
    Encode(VIBRATE \o <<COLON>> \o IntToStr(10)),
    BareFrame(FOO),
    CommandFrame(VIBRATE, ABC),
    VibrateFrame(21),
    BareFrame(GETBATTERY),
    BareFrame(DEVICETYPE) }

\* C14: receiving a text frame, or handling a binary frame that carries no
\* command, leaves the command queue and all that was ever put on it as
\* they are, keeps the upstream connection open and listening with no
\* backoff wait, and changes nothing of the actuator link.
C14_NoCommandNoEffect ==
  [][( \/ (HandlesFrame /\ msg'.data \in NoCommandFrames)
       \/ (ipc = "listening" /\ msg' = TextMsg /\ msg # TextMsg) )
       => /\ UNCHANGED <<pump_command_queue, unfinished_tasks, put_log>>
          /\ ipc' = "listening"
          /\ iws' = iws
          /\ isleep' = isleep
          /\ UNCHANGED <<lpc, lws, lsleep, speed, sent, lost>>]_vars

\* C14 witness: an undecodable frame was handled after a command while the
\* first value is in flight to the actuator, and the queue, the upstream
\* connection and the send in progress are as the command left them
C14_Witness ==
  /\ msg = BinaryMsg(<<118, 255>>)
  /\ nrecv = 2
  /\ put_log = <<500>>
  /\ pump_command_queue = <<>>
  /\ ipc = "listening"
  /\ lpc = "send"
  /\ speed.seq = 1

\* C15: a cancellation delivered to the actuator link manager while it
\* waits on the queue ends the task: the connection is closed, no backoff
\* wait starts, and the queue, the values sent and the values lost are as
\* they were; once ended, the task takes no further step, so nothing is
\* dequeued, sent or lost and no connection is opened, while the queue only
\* grows.
C15_CancelledWhileWaiting ==
  /\ [][(lpc = "get" /\ ended["lbis"] = "no" /\ ended'["lbis"] # "no")
          => /\ lpc' = "done"
             /\ lws' = lws - 1
             /\ lsleep' = 0
             /\ UNCHANGED <<pump_command_queue, sent, lost>>]_vars
  /\ [][(lpc = "done")
          => /\ UNCHANGED <<lpc, lws, lsleep, speed, sent, lost>>
             /\ Len(pump_command_queue') >= Len(pump_command_queue)
             /\ SubSeq(pump_command_queue', 1, Len(pump_command_queue))
                  = pump_command_queue]_vars

\* C15 witness: the task was cancelled on the queue wait after one
\* completed send (nothing was lost, so it was not cancelled in a send nor
\* after a failed one), and a value enqueued since then is still queued
C15_Witness ==
  /\ lpc = "done"
  /\ ended["lbis"] = "raised"
  /\ lws = 0
  /\ Len(sent) = 1
  /\ lost = <<>>
  /\ Len(pump_command_queue) = 1
  /\ mainpc = "gather"

\* C16: the response-id counter is 1 when an upstream connection has just
\* been made, whatever the previous connection left, and no step taken
\* while the connection is open lowers it.
C16_CounterReset ==
  /\ [][(ipc = "connecting" /\ ipc' = "handshake")
          => message_id_counter' = 1]_vars
  /\ [](ipc = "handshake" => message_id_counter = 1)
  /\ [][(ipc \in IntifaceInWs)
          => message_id_counter' >= message_id_counter]_vars

\* C16 witness: on a connection made after the server closed an earlier
\* one, the first Id assigned was 1 and the counter stands at 2
C16_Witness ==
  /\ ipc = "listening"
  /\ msg = ClosedMsg
  /\ message_id_counter = 2
  /\ Len(MessagesIn(wsdm_out)) = 1
  /\ MessagesIn(wsdm_out)[1].assigned
  /\ MessagesIn(wsdm_out)[1].body.Id = 1

\* the values dequeued and not yet sent or lost: the one in flight, if any
InFlight == IF speed = NoSpeed THEN <<>> ELSE <<speed>>

\* every item the actuator link has taken from the queue
Dequeued == sent \o lost \o InFlight

\* C17: every value ever enqueued is in exactly one place: still in the
\* queue, in flight, sent, or lost; it is there once and with the value it
\* was enqueued with, so no value is sent twice; and the frames sent are no
\* more than the values dequeued, which are no more than the values
\* enqueued.
C17_Conservation ==
  /\ Seqs(pump_command_queue) \cup Seqs(Dequeued) = 1..Len(put_log)
  /\ Len(pump_command_queue) + Len(Dequeued) = Len(put_log)
  /\ \A i \in 1..Len(pump_command_queue) :
       pump_command_queue[i].speed = put_log[pump_command_queue[i].seq]
  /\ \A i \in 1..Len(lost) : lost[i].speed = put_log[lost[i].seq]
  /\ \A i \in 1..Len(InFlight) : InFlight[i].speed = put_log[InFlight[i].seq]
  /\ \A i \in 1..Len(sent) : sent[i].pump = put_log[sent[i].seq]
  /\ Cardinality(Seqs(sent)) = Len(sent)
  /\ Len(sent) <= Len(Dequeued)
  /\ Len(Dequeued) <= Len(put_log)
  /\ (lpc = "send") <=> (speed # NoSpeed)

\* C17 witness: of two values enqueued, the first was sent and the second
\* is in flight
C17_Witness ==
  /\ put_log = <<500, 0>>
  /\ Len(sent) = 1
  /\ sent[1].pump = 500
  /\ speed = Item(0, 2)
  /\ pump_command_queue = <<>>
  /\ lost = <<>>

\* C18: the queue gets shorter only by a step the actuator link manager
\* takes while it waits on the queue with its connection open; that step
\* removes the head alone; before the first attempt, while connecting, in
\* the backoff wait and after the task ended the queue never gets shorter.
C18_DequeueOnlyWhileConnected ==
  /\ [][(Len(pump_command_queue') < Len(pump_command_queue))
          => /\ lpc = "get"
             /\ lws = 1
             /\ lpc' = "send"
             /\ pump_command_queue' = Tail(pump_command_queue)]_vars
  /\ [][(lpc \in {"start", "connecting", "backoff", "done"})
          => /\ Len(pump_command_queue') >= Len(pump_command_queue)
             /\ SubSeq(pump_command_queue', 1, Len(pump_command_queue))
                  = pump_command_queue]_vars

\* C18 witness: two values were enqueued while the actuator link was down
\* and stayed queued until it connected; the first is now in flight
C18_Witness ==
  /\ put_down = {1, 2}
  /\ lpc = "send"
  /\ speed.seq = 1
  /\ Len(pump_command_queue) = 1
  /\ lost = <<>>
  /\ sent = <<>>

\* the frames b"vibrate:5;vibrate:10;" and b"vibrate:10:5;"
TwoCommandsFrame ==
  CommandFrame(VIBRATE, Str(<<"5",";","v","i","b","r","a","t","e",":","1","0">>))
TwoValuesFrame == CommandFrame(VIBRATE, Str(<<"1","0",":","5">>))

\* C19: handling one binary frame appends nothing or one value to the
\* queue; the frame "vibrate:5;vibrate:10;" appends nothing and the frame
\* "vibrate:10:5;" appends the single value 10/20; the values ever enqueued
\* are never more than the binary frames handled.
C19_AtMostOneEnqueue ==
  /\ [][HandlesFrame
          => /\ Len(put_log') - Len(put_log) \in {0, 1}
             /\ Len(pump_command_queue') - Len(pump_command_queue)
                  = Len(put_log') - Len(put_log)
             /\ (msg'.data = TwoCommandsFrame) => PutsNothing
             /\ (msg'.data = TwoValuesFrame) => PutsOne(Speed(10))]_vars
  /\ [](Len(put_log) <= nrecv)

\* C19 witness: the frame "vibrate:10:5;" was handled and one value, 0.5,
\* was enqueued
C19_Witness ==
  /\ nrecv = 1
  /\ msg = BinaryMsg(TwoValuesFrame)
  /\ put_log = <<500>>
  /\ Len(pump_command_queue) = 1

\* the messages sent so far on the upstream connection
SentMessages == MessagesIn(wsdm_out)

\* a call of send_intiface_message completed
SendsMessages == ipc = "listening" /\ Len(wsdm_out') = Len(wsdm_out) + 1

\* the messages of the frame the step sends, and those given an Id by it
NewMessages == wsdm_out'[Len(wsdm_out')].messages
NewlyAssigned == {k \in 1..Len(NewMessages) : NewMessages[k].assigned}

\* messages of other types are given no Id, and the counter advances by
\* one per Id assigned, the Ids being its successive values
IdsFromCounter ==
  /\ [](\A i \in 1..Len(SentMessages) :
          SentMessages[i].assigned => SentMessages[i].type \in ID_TYPES)
  /\ [][SendsMessages
          => /\ message_id_counter'
                  = message_id_counter + Cardinality(NewlyAssigned)
             /\ \A k \in NewlyAssigned :
                  NewMessages[k].body.Id
                    = message_id_counter
                        + Cardinality({j \in NewlyAssigned : j < k})]_vars

\* C20 as stated: within one upstream connection all Ok and Error messages
\* sent carry pairwise distinct Ids, also when some were passed in with an
\* Id; messages of other types are given no Id; the counter advances by one
\* per Id assigned.
C20_UniqueIds ==
  /\ [](\A i, j \in 1..Len(SentMessages) :
          (/\ i # j
           /\ SentMessages[i].type \in ID_TYPES
           /\ SentMessages[j].type \in ID_TYPES)
            => SentMessages[i].body.Id # SentMessages[j].body.Id)
  /\ IdsFromCounter

\* C20 amended: within one upstream connection the Ids the function assigns
\* to Ok and Error messages are pairwise distinct and below the counter; a
\* message passed in with an Id keeps it, whether or not it equals an
\* assigned one; messages of other types are given no Id; the counter
\* advances by one per Id assigned.
C20_UniqueAssignedIds ==
  /\ [](\A i, j \in 1..Len(SentMessages) :
          (/\ i # j
           /\ SentMessages[i].assigned
           /\ SentMessages[j].assigned)
            => SentMessages[i].body.Id # SentMessages[j].body.Id)
  /\ [](\A i \in 1..Len(SentMessages) :
          /\ SentMessages[i].assigned
               => SentMessages[i].body.Id < message_id_counter
          /\ SentMessages[i].type \in ID_TYPES
               => "Id" \in DOMAIN SentMessages[i].body)
  /\ IdsFromCounter

\* C20 witness: an Ok passed in with Id 1 was sent, then an Ok and an Error
\* without Id, which were given 1 and 2
C20_Witness ==
  /\ ipc = "listening"
  /\ message_id_counter = 3
  /\ SentMessages
       = << [type |-> "Ok", body |-> [Id |-> 1], assigned |-> FALSE],
            [type |-> "Ok", body |-> [Id |-> 1], assigned |-> TRUE],
            [type |-> "Error", body |-> [Id |-> 2], assigned |-> TRUE] >>

====
